---- MODULE Spec2Model ----
(***************************************************************************)
(* Model of server.js: an Express application with three POST endpoints    *)
(* (/api/analyze-image, /api/generate-recipe, /api/find-recipe-video)      *)
(* that call a generative-AI provider, and a multer disk-storage upload    *)
(* middleware in front of the first one.                                   *)
(*                                                                         *)
(* Text (provider responses, file names) is a sequence of one-character    *)
(* strings.  Opaque literals (error messages, prompt fragments) are        *)
(* strings.  A request is a small state machine whose steps are the        *)
(* stretches of JavaScript that run between two suspension points.         *)
(***************************************************************************)
EXTENDS Integers, Sequences, FiniteSets, TLC

\* ------------------------------------------------------------------ bounds

\* Number of HTTP requests the clients send (they may all be in flight at once).
NumReqs == 2
\* Longest provider text enumerated for the parse step.
MaxLen == 4

Reqs == 1..NumReqs

\* ------------------------------------------------------------------ text

Whitespace == {" ", "\t"}
Chars == {"a", "b", ",", " ", "\t"}

RECURSIVE SeqsUpTo(_)
SeqsUpTo(n) ==
  IF n = 0 THEN {<<>>}
  ELSE LET S == SeqsUpTo(n - 1)
       IN  S \cup {Append(s, c) : s \in {t \in S : Len(t) = n - 1}, c \in Chars}

\* String.prototype.split(','): the pieces between the commas, empty ones kept.
RECURSIVE Split(_)
Split(s) ==
  IF \A i \in 1..Len(s) : s[i] # ","
  THEN <<s>>
  ELSE LET i == CHOOSE k \in 1..Len(s) : s[k] = "," /\ \A j \in 1..(k - 1) : s[j] # ","
       IN  <<SubSeq(s, 1, i - 1)>> \o Split(SubSeq(s, i + 1, Len(s)))

RECURSIVE TrimStart(_)
TrimStart(s) ==
  IF Len(s) > 0 /\ s[1] \in Whitespace THEN TrimStart(Tail(s)) ELSE s

RECURSIVE TrimEnd(_)
TrimEnd(s) ==
  IF Len(s) > 0 /\ s[Len(s)] \in Whitespace THEN TrimEnd(SubSeq(s, 1, Len(s) - 1)) ELSE s

\* A trim that forgets the end of the string.
TrimStartOnly(s) == TrimStart(s)

\* String.prototype.trim(): white space removed at both ends.
Trim(s) == TrimEnd(TrimStart(s))

MapTrim(items) == [i \in 1..Len(items) |-> Trim(items[i])]

NonEmpty(item) == Len(item) > 0

\* text.split(',').map(item => item.trim()).filter(item => item.length > 0)
ParseIngredients(text) == SelectSeq(MapTrim(Split(text)), NonEmpty)

\* encodeURIComponent on the characters of the model.
EncodeChar(c) ==
  CASE c = " "  -> <<"%", "2", "0">>
    [] c = ","  -> <<"%", "2", "C">>
    [] c = "\t" -> <<"%", "0", "9">>
    [] OTHER    -> <<c>>

RECURSIVE EncodeURIComponent(_)
EncodeURIComponent(s) ==
  IF Len(s) = 0 THEN <<>> ELSE EncodeChar(s[1]) \o EncodeURIComponent(Tail(s))

\* path.extname: from the last dot of the name to its end; empty when there is
\* no dot or when the only dots are the leading ones.
ExtName(name) ==
  LET dots == {i \in 1..Len(name) : name[i] = "."}
  IN  IF dots = {} THEN <<>>
      ELSE LET last == CHOOSE i \in dots : \A j \in dots : j <= i
           IN  IF \A j \in 1..(last - 1) : name[j] = "."
               THEN <<>>
               ELSE SubSeq(name, last, Len(name))

B64 ==
  << "A","B","C","D","E","F","G","H","I","J","K","L","M","N","O","P",
     "Q","R","S","T","U","V","W","X","Y","Z","a","b","c","d","e","f",
     "g","h","i","j","k","l","m","n","o","p","q","r","s","t","u","v",
     "w","x","y","z","0","1","2","3","4","5","6","7","8","9","+","/" >>

\* Buffer.prototype.toString('base64')
RECURSIVE Base64(_)
Base64(b) ==
  IF Len(b) = 0 THEN <<>>
  ELSE IF Len(b) = 1 THEN
    << B64[(b[1] \div 4) + 1], B64[((b[1] % 4) * 16) + 1], "=", "=" >>
  ELSE IF Len(b) = 2 THEN
    << B64[(b[1] \div 4) + 1], B64[((b[1] % 4) * 16 + (b[2] \div 16)) + 1],
       B64[((b[2] % 16) * 4) + 1], "=" >>
  ELSE
    << B64[(b[1] \div 4) + 1], B64[((b[1] % 4) * 16 + (b[2] \div 16)) + 1],
       B64[((b[2] % 16) * 4 + (b[3] \div 64)) + 1], B64[(b[3] % 64) + 1] >>
    \o Base64(SubSeq(b, 4, Len(b)))

\* ------------------------------------------------------------------ values

\* JavaScript values of a JSON body field: absent, null, '' or a non-empty string.
Undefined == "<undefined>"
Null == "<null>"
EmptyString == ""

\* !v is false exactly for the truthy values.
Truthy(v) == v \notin {Undefined, Null, EmptyString}

CuisineSentinel == "Any"
DietarySentinel == "None"

IngredientsValues == {Undefined, Null, EmptyString, "rice, egg"}
CuisineValues == {Undefined, Null, EmptyString, CuisineSentinel, "Thai"}
DietaryValues == {Undefined, Null, EmptyString, DietarySentinel, "vegan"}
RecipeNameValues == {Undefined, EmptyString, "pad thai"}

RecipeBodies ==
  [ingredients : IngredientsValues, cuisine : CuisineValues,
   dietaryRestrictions : DietaryValues]

VideoBodies ==
  [recipeName : RecipeNameValues, ingredients : {Undefined, "rice, egg"},
   cuisine : {Undefined, "Thai"}]

\* ------------------------------------------------------------------ prompts

AnalyzePrompt == "Analyze this food image and list all visible ingredients. ..."

CuisineClauseHead == "The cuisine should be "
DietaryClauseHead == "Please ensure the recipe is "

\* A cuisine clause that forgets the sentinel.
CuisineClauseNoSentinel(cuisine) ==
  IF Truthy(cuisine) THEN <<CuisineClauseHead, cuisine, ".">> ELSE <<>>

CuisineClause(cuisine) ==
  IF Truthy(cuisine) /\ cuisine # CuisineSentinel
  THEN <<CuisineClauseHead, cuisine, ".">>
  ELSE <<>>

DietaryClause(dietaryRestrictions) ==
  IF Truthy(dietaryRestrictions) /\ dietaryRestrictions # DietarySentinel
  THEN <<DietaryClauseHead, dietaryRestrictions, ".">>
  ELSE <<>>

\* The template literal of generate-recipe: its fixed pieces and interpolations.
RecipePrompt(body) ==
  <<"Create a detailed recipe using these ingredients: ", body.ingredients, ".", "\n">>
  \o CuisineClause(body.cuisine) \o <<"\n">>
  \o DietaryClause(body.dietaryRestrictions) \o <<"\n">>
  \o <<"Format the recipe with these sections: ...">>

\* The template literal of find-recipe-video.
VideoPrompt(body) ==
  <<"Create a precise YouTube search query for a recipe tutorial.", "Recipe: ",
    body.recipeName, "\n">>
  \o (IF Truthy(body.ingredients) THEN <<"Main ingredients: ", body.ingredients>> ELSE <<>>)
  \o <<"\n">>
  \o (IF Truthy(body.cuisine) THEN <<"Cuisine type: ", body.cuisine>> ELSE <<>>)
  \o <<"\n">>
  \o <<"INSTRUCTIONS: ...">>

\* ------------------------------------------------------------------ uploads

FileSizeLimit == 10 * 1024 * 1024

\* Sizes of an uploaded file part: under, at and over the limit.
Sizes == {1, FileSizeLimit, FileSizeLimit + 1}

\* The part is over the limit; whether a part of exactly the limit counts
\* depends on the version of the multipart parser under multer.
ExceedsLimit(size, inclusive) ==
  IF inclusive THEN size >= FileSizeLimit ELSE size > FileSizeLimit

MimeTypes == {<<"image", "jpeg">>, <<"text", "plain">>}

\* file.mimetype.startsWith('image/'), the mimetype being <<type, subtype>>.
FileFilter(mimetype) == mimetype[1] = "image"

OriginalNames == {<<"a", ".", "j">>, <<"b", ".", "j">>}

\* The bytes request r uploads: a JPEG signature and a byte that tells the
\* uploads of different requests apart.
ImageOf(r) == <<255, 216, 255, r>>

Missing == <<-1>>

\* Date.now() is the wall clock in milliseconds: two calls can return the same
\* value.  The model draws it from two instants.
Instants == {0, 1}

\* Math.round(Math.random() * 1E9) lies in 0..RandomScale; the model draws the
\* two ends of the range.
RandomScale == 1000000000
RandomSamples == {0, RandomScale}

\* Date.now() + '-' + Math.round(Math.random() * 1E9) + path.extname(originalname).
\* The string is determined by, and determines, the triple.
Filename(now, random, originalname) == <<now, random, ExtName(originalname)>>

Paths ==
  {Filename(t, n, o) : t \in Instants, n \in RandomSamples, o \in OriginalNames}

NoReqFile == [path |-> <<>>, mimetype |-> <<>>]

\* ------------------------------------------------------------------ responses

NoField == "<absent>"

Json(status, error, details, body) ==
  [status |-> status, json |-> TRUE, error |-> error, details |-> details,
   body |-> body, page |-> NoField]

\* Express's default error handler: no error-handling middleware is installed,
\* so an error passed to next() is answered with err.status (or 500) and an
\* HTML page showing the error.
DefaultErrorResponse(message) ==
  [status |-> 500, json |-> FALSE, error |-> NoField, details |-> NoField,
   body |-> <<>>, page |-> message]

NotAnImage == "Not an image! Please upload an image file."
FileTooLarge == "File too large"

NoImageFile == "No image file provided"
IngredientsRequired == "Ingredients are required"
RecipeNameRequired == "Recipe name is required"

\* Catch blocks copied from the first handler with the message left as it was.
FailMsgCopied(k) == "Failed to analyze image"

\* The fixed message of each handler's catch block.
FailMsg(k) ==
  CASE k = "analyze" -> "Failed to analyze image"
    [] k = "recipe"  -> "Failed to generate recipe"
    [] k = "video"   -> "Failed to find recipe video"

\* ------------------------------------------------------------------ provider

ProviderTexts == {<<"a", ",", " ", "b", ",">>, <<" ">>}
ProviderErrors ==
  {"[GoogleGenerativeAI Error]: Error fetching from https://...: fetch failed"}
BlockedMessage == "[GoogleGenerativeAI Error]: Response was blocked due to SAFETY"

ReadENOENT == "ENOENT: no such file or directory, open"
ReadEACCES == "EACCES: permission denied, open"
UnlinkENOENT == "ENOENT: no such file or directory, unlink"
UnlinkEPERM == "EPERM: operation not permitted, unlink"

Idle == [state |-> "idle", text |-> <<>>, blocked |-> FALSE, message |-> ""]
Pending == [Idle EXCEPT !.state = "pending"]

\* ------------------------------------------------------------------ state

VARIABLES
  disk,       \* the uploads directory: path -> bytes, or Missing
  kind,       \* per request: "none" until it arrives, then its endpoint
  pc,         \* per request: where its handling stands
  file,       \* per request: req.file
  provider,   \* per request: the promise of model.generateContent
  arg,        \* per request: the argument of the generateContent call in flight
  calls,      \* per request: number of generateContent calls made
  sent,       \* per request: the responses written, in order
  parseJob,   \* the parse step taken alone: text, ingredients, done
  promptJob   \* the recipe prompt taken alone: body, prompt, done

reqVars == <<disk, kind, pc, file, provider, arg, calls, sent>>
vars == <<disk, kind, pc, file, provider, arg, calls, sent, parseJob, promptJob>>

ParseIdle == [text |-> <<>>, ingredients |-> <<>>, done |-> FALSE]
PromptIdle ==
  [body |-> [ingredients |-> Undefined, cuisine |-> Undefined,
             dietaryRestrictions |-> Undefined],
   prompt |-> <<>>, done |-> FALSE]

ReqInit ==
  /\ disk = [p \in Paths |-> Missing]
  /\ kind = [r \in Reqs |-> "none"]
  /\ pc = [r \in Reqs |-> "new"]
  /\ file = [r \in Reqs |-> NoReqFile]
  /\ provider = [r \in Reqs |-> Idle]
  /\ arg = [r \in Reqs |-> <<>>]
  /\ calls = [r \in Reqs |-> 0]
  /\ sent = [r \in Reqs |-> <<>>]

Init == ReqInit /\ parseJob = ParseIdle /\ promptJob = PromptIdle

\* Requests are numbered in the order in which they arrive.
Arrives(r) ==
  /\ kind[r] = "none"
  /\ r > 1 => kind[r - 1] # "none"

\* res.status(...).json(...) or res.json(...), which ends the request.
Respond(r, response) ==
  /\ sent' = [sent EXCEPT ![r] = Append(@, response)]
  /\ pc' = [pc EXCEPT ![r] = "done"]
  /\ file' = [file EXCEPT ![r] = NoReqFile]
  /\ provider' = [provider EXCEPT ![r] = Idle]
  /\ arg' = [arg EXCEPT ![r] = <<>>]

\* model.generateContent(a): the call is made and the handler suspends.
CallProvider(r, a) ==
  /\ calls' = [calls EXCEPT ![r] = @ + 1]
  /\ provider' = [provider EXCEPT ![r] = Pending]
  /\ arg' = [arg EXCEPT ![r] = a]
  /\ pc' = [pc EXCEPT ![r] = "awaitGen"]

\* ------------------------------------------------------------------ upload.single('image')

\* The multipart body has no 'image' file part: req.file stays undefined.
UploadNoFile(r) ==
  /\ Arrives(r)
  /\ kind' = [kind EXCEPT ![r] = "analyze"]
  /\ pc' = [pc EXCEPT ![r] = "handler"]
  /\ UNCHANGED <<disk, file, provider, arg, calls, sent, parseJob, promptJob>>

\* fileFilter refuses the part: the error goes to next(), the handler never runs.
UploadFiltered(r) ==
  /\ Arrives(r)
  /\ {m \in MimeTypes : ~FileFilter(m)} # {}
  /\ kind' = [kind EXCEPT ![r] = "analyze"]
  /\ Respond(r, DefaultErrorResponse(NotAnImage))
  /\ UNCHANGED <<disk, calls, parseJob, promptJob>>

\* fileFilter accepts the part and disk storage writes it under the name that
\* filename() computes (flags 'w': an existing file of that name is replaced).
\* A part over the size limit is cut short and multer aborts.
UploadStaged(r) ==
  /\ Arrives(r)
  /\ \E mimetype \in {m \in MimeTypes : FileFilter(m)},
        path \in {Filename(now, random, originalname) :
                    now \in Instants, random \in RandomSamples,
                    originalname \in OriginalNames},
        over \in {ExceedsLimit(size, inclusive) : size \in Sizes, inclusive \in BOOLEAN} :
       /\ disk' = [disk EXCEPT ![path] = ImageOf(r)]
       /\ file' = [file EXCEPT ![r] = [path |-> path, mimetype |-> mimetype]]
       /\ pc' = [pc EXCEPT ![r] = IF over THEN "abort" ELSE "handler"]
  /\ kind' = [kind EXCEPT ![r] = "analyze"]
  /\ UNCHANGED <<provider, arg, calls, sent, parseJob, promptJob>>

\* multer, on LIMIT_FILE_SIZE: removes the file it wrote and passes the error
\* to next(); the handler never runs.
MulterAbort(r) ==
  /\ pc[r] = "abort"
  /\ disk' = [disk EXCEPT ![file[r].path] = Missing]
  /\ Respond(r, DefaultErrorResponse(FileTooLarge))
  /\ UNCHANGED <<kind, calls, parseJob, promptJob>>

\* ------------------------------------------------------------------ /api/analyze-image

\* if (!req.file) return res.status(400).json(...)
AnalyzeNoFile(r) ==
  /\ kind[r] = "analyze" /\ pc[r] = "handler"
  /\ file[r] = NoReqFile
  /\ Respond(r, Json(400, NoImageFile, NoField, <<>>))
  /\ UNCHANGED <<disk, kind, calls, parseJob, promptJob>>

\* The errors fs.readFileSync(path) can throw: the file is gone, or the
\* operating system refuses.
ReadErrors(path) == IF disk[path] = Missing THEN {ReadENOENT} ELSE {ReadEACCES}

\* fs.readFileSync throws: the catch block answers 500.
AnalyzeReadThrows(r) ==
  /\ kind[r] = "analyze" /\ pc[r] = "handler"
  /\ file[r] # NoReqFile
  /\ \E e \in ReadErrors(file[r].path) :
       Respond(r, Json(500, FailMsg("analyze"), e, <<>>))
  /\ UNCHANGED <<disk, kind, calls, parseJob, promptJob>>

\* The file is read, encoded and sent to the provider with the fixed prompt.
AnalyzeCallProvider(r) ==
  /\ kind[r] = "analyze" /\ pc[r] = "handler"
  /\ file[r] # NoReqFile
  /\ disk[file[r].path] # Missing
  /\ LET imageBuffer == disk[file[r].path]
         base64Image == Base64(imageBuffer)
     IN  CallProvider(r, [prompt |-> AnalyzePrompt,
                          mimeType |-> file[r].mimetype, data |-> base64Image])
  /\ UNCHANGED <<disk, kind, file, sent, parseJob, promptJob>>

\* The errors fs.unlinkSync(path) can throw.
UnlinkErrors(path) == IF disk[path] = Missing THEN {UnlinkENOENT} ELSE {UnlinkEPERM}

\* A success path that answers without removing the file.
AnalyzeSucceedsKeepsFile(r) ==
  /\ kind[r] = "analyze" /\ pc[r] = "awaitGen"
  /\ provider[r].state = "fulfilled" /\ ~provider[r].blocked
  /\ disk[file[r].path] # Missing
  /\ Respond(r, Json(200, NoField, NoField, ParseIngredients(provider[r].text)))
  /\ UNCHANGED <<disk, kind, calls, parseJob, promptJob>>

\* Lines 95-108 after generateContent resolved: parse, unlink, res.json.
AnalyzeSucceeds(r) ==
  /\ kind[r] = "analyze" /\ pc[r] = "awaitGen"
  /\ provider[r].state = "fulfilled" /\ ~provider[r].blocked
  /\ disk[file[r].path] # Missing
  /\ LET ingredients == ParseIngredients(provider[r].text)
     IN  /\ disk' = [disk EXCEPT ![file[r].path] = Missing]
         /\ Respond(r, Json(200, NoField, NoField, ingredients))
  /\ UNCHANGED <<kind, calls, parseJob, promptJob>>

\* Lines 95-105 after generateContent resolved, fs.unlinkSync throwing: the
\* catch block answers 500.
AnalyzeUnlinkThrows(r) ==
  /\ kind[r] = "analyze" /\ pc[r] = "awaitGen"
  /\ provider[r].state = "fulfilled" /\ ~provider[r].blocked
  /\ \E e \in UnlinkErrors(file[r].path) :
       Respond(r, Json(500, FailMsg("analyze"), e, <<>>))
  /\ UNCHANGED <<disk, kind, calls, parseJob, promptJob>>

\* ------------------------------------------------------------------ /api/generate-recipe

\* The validation without its return: the 400 is written and the handler goes
\* on to call the provider.
RecipeInvalidNoReturn(r) ==
  /\ Arrives(r)
  /\ {b \in RecipeBodies : ~Truthy(b.ingredients)} # {}
  /\ kind' = [kind EXCEPT ![r] = "recipe"]
  /\ Respond(r, Json(400, IngredientsRequired, NoField, <<>>))
  /\ calls' = [calls EXCEPT ![r] = @ + 1]
  /\ UNCHANGED <<disk, parseJob, promptJob>>

\* if (!ingredients) return res.status(400).json(...)
RecipeInvalid(r) ==
  /\ Arrives(r)
  /\ {b \in RecipeBodies : ~Truthy(b.ingredients)} # {}
  /\ kind' = [kind EXCEPT ![r] = "recipe"]
  /\ Respond(r, Json(400, IngredientsRequired, NoField, <<>>))
  /\ UNCHANGED <<disk, calls, parseJob, promptJob>>

RecipeCallProvider(r) ==
  /\ Arrives(r)
  /\ \E prompt \in {RecipePrompt(body) : body \in {b \in RecipeBodies : Truthy(b.ingredients)}} :
       CallProvider(r, prompt)
  /\ kind' = [kind EXCEPT ![r] = "recipe"]
  /\ UNCHANGED <<disk, file, sent, parseJob, promptJob>>

\* res.json({ recipe }): the provider's text as it came.
RecipeSucceeds(r) ==
  /\ kind[r] = "recipe" /\ pc[r] = "awaitGen"
  /\ provider[r].state = "fulfilled" /\ ~provider[r].blocked
  /\ Respond(r, Json(200, NoField, NoField, provider[r].text))
  /\ UNCHANGED <<disk, kind, calls, parseJob, promptJob>>

\* ------------------------------------------------------------------ /api/find-recipe-video

\* if (!recipeName) return res.status(400).json(...)
VideoInvalid(r) ==
  /\ Arrives(r)
  /\ {b \in VideoBodies : ~Truthy(b.recipeName)} # {}
  /\ kind' = [kind EXCEPT ![r] = "video"]
  /\ Respond(r, Json(400, RecipeNameRequired, NoField, <<>>))
  /\ UNCHANGED <<disk, calls, parseJob, promptJob>>

VideoCallProvider(r) ==
  /\ Arrives(r)
  /\ \E prompt \in {VideoPrompt(body) : body \in {b \in VideoBodies : Truthy(b.recipeName)}} :
       CallProvider(r, prompt)
  /\ kind' = [kind EXCEPT ![r] = "video"]
  /\ UNCHANGED <<disk, file, sent, parseJob, promptJob>>

EmbedUrl == "https://www.youtube-nocookie.com/embed?search="
SearchUrl == "https://www.youtube.com/results?search_query="

VideoResult(text) ==
  LET searchQuery == Trim(text)
  IN  [searchQuery |-> searchQuery,
       youtubeEmbedUrl |-> <<EmbedUrl>> \o EncodeURIComponent(searchQuery),
       youtubeFirstResultUrl |-> <<EmbedUrl>> \o EncodeURIComponent(searchQuery),
       youtubeSearchUrl |-> <<SearchUrl>> \o EncodeURIComponent(searchQuery)]

VideoSucceeds(r) ==
  /\ kind[r] = "video" /\ pc[r] = "awaitGen"
  /\ provider[r].state = "fulfilled" /\ ~provider[r].blocked
  /\ Respond(r, Json(200, NoField, NoField, VideoResult(provider[r].text)))
  /\ UNCHANGED <<disk, kind, calls, parseJob, promptJob>>

\* ------------------------------------------------------------------ provider and catch blocks

\* The promise of generateContent resolves; the response either carries a text
\* or was blocked, in which case response.text() will throw.
ProviderFulfils(r) ==
  /\ provider[r].state = "pending"
  /\ \/ \E t \in ProviderTexts :
          provider' = [provider EXCEPT ![r] = [@ EXCEPT !.state = "fulfilled", !.text = t]]
     \/ provider' = [provider EXCEPT ![r] =
                       [@ EXCEPT !.state = "fulfilled", !.blocked = TRUE,
                                 !.message = BlockedMessage]]
  /\ arg' = [arg EXCEPT ![r] = <<>>]
  /\ UNCHANGED <<disk, kind, pc, file, calls, sent, parseJob, promptJob>>

\* The promise of generateContent rejects with an error carrying a message.
ProviderRejects(r) ==
  /\ provider[r].state = "pending"
  /\ \E m \in ProviderErrors :
       provider' = [provider EXCEPT ![r] = [@ EXCEPT !.state = "rejected", !.message = m]]
  /\ arg' = [arg EXCEPT ![r] = <<>>]
  /\ UNCHANGED <<disk, kind, pc, file, calls, sent, parseJob, promptJob>>

\* A catch block that calls the provider again instead of answering.
CatchProviderErrorRetries(r) ==
  /\ pc[r] = "awaitGen"
  /\ \/ provider[r].state = "rejected"
     \/ provider[r].state = "fulfilled" /\ provider[r].blocked
  /\ calls[r] < 2
  /\ calls' = [calls EXCEPT ![r] = @ + 1]
  /\ provider' = [provider EXCEPT ![r] = Pending]
  /\ UNCHANGED <<disk, kind, pc, file, arg, sent, parseJob, promptJob>>

\* catch (error), the provider's error having been thrown at the await or by
\* response.text(): 500 with the handler's message and error.message.
CatchProviderError(r) ==
  /\ pc[r] = "awaitGen"
  /\ \/ provider[r].state = "rejected"
     \/ provider[r].state = "fulfilled" /\ provider[r].blocked
  /\ Respond(r, Json(500, FailMsg(kind[r]), provider[r].message, <<>>))
  /\ UNCHANGED <<disk, kind, calls, parseJob, promptJob>>

\* ------------------------------------------------------------------ the pure steps taken alone

Example == <<"a", ",", " ", "b", " ", ",", "c", ",">>
Texts == SeqsUpTo(MaxLen) \cup {Example}

\* Lines 99-102 applied to one provider text.
ParseStep ==
  /\ ~parseJob.done
  /\ parseJob' = [parseJob EXCEPT !.ingredients = ParseIngredients(parseJob.text),
                                  !.done = TRUE]
  /\ UNCHANGED <<disk, kind, pc, file, provider, arg, calls, sent, promptJob>>

\* Lines 121-134 applied to one request body.
BuildPrompt ==
  /\ ~promptJob.done
  /\ Truthy(promptJob.body.ingredients)
  /\ promptJob' = [promptJob EXCEPT !.prompt = RecipePrompt(promptJob.body),
                                    !.done = TRUE]
  /\ UNCHANGED <<disk, kind, pc, file, provider, arg, calls, sent, parseJob>>

\* ------------------------------------------------------------------ specifications

\* What request r does once it has arrived, the provider's answer included.
Step(r) ==
  \/ MulterAbort(r)
  \/ AnalyzeNoFile(r) \/ AnalyzeReadThrows(r) \/ AnalyzeCallProvider(r)
  \/ AnalyzeSucceeds(r) \/ AnalyzeUnlinkThrows(r)
  \/ RecipeSucceeds(r) \/ VideoSucceeds(r)
  \/ ProviderFulfils(r) \/ ProviderRejects(r) \/ CatchProviderError(r)

Next ==
  \E r \in Reqs :
    \/ UploadNoFile(r) \/ UploadFiltered(r) \/ UploadStaged(r) \/ MulterAbort(r)
    \/ AnalyzeNoFile(r) \/ AnalyzeReadThrows(r) \/ AnalyzeCallProvider(r)
    \/ AnalyzeSucceeds(r) \/ AnalyzeUnlinkThrows(r)
    \/ RecipeInvalid(r) \/ RecipeCallProvider(r) \/ RecipeSucceeds(r)
    \/ VideoInvalid(r) \/ VideoCallProvider(r) \/ VideoSucceeds(r)
    \/ ProviderFulfils(r) \/ ProviderRejects(r) \/ CatchProviderError(r)

Spec == Init /\ [][Next]_vars

\* The event loop runs every callback that is ready, and the provider's promise
\* settles: each request that has arrived keeps taking its steps.
FairSpec == Spec /\ \A r \in Reqs : WF_vars(Step(r))

ParseInit ==
  /\ ReqInit
  /\ promptJob = PromptIdle
  /\ parseJob \in {[text |-> t, ingredients |-> <<>>, done |-> FALSE] : t \in Texts}

SpecParse == ParseInit /\ [][ParseStep]_vars

PromptInit ==
  /\ ReqInit
  /\ parseJob = ParseIdle
  /\ promptJob \in {[body |-> b, prompt |-> <<>>, done |-> FALSE] : b \in RecipeBodies}

SpecPrompt == PromptInit /\ [][BuildPrompt]_vars

\* ------------------------------------------------------------------ claims

Arrived(r) == kind[r] # "none"
Done(r) == pc[r] = "done"
Finishes(r) == pc[r] # "done" /\ pc'[r] = "done"

\* The request was refused for its input: by the MIME filter, by the size
\* limit, or by a handler's own check.
ValidationFailed(r) ==
  \E i \in 1..Len(sent[r]) :
    \/ sent[r][i].page \in {NotAnImage, FileTooLarge}
    \/ sent[r][i].error \in {NoImageFile, IngredientsRequired, RecipeNameRequired}

\* C1: when an analyze-image request for which a file was staged reaches its
\* end, the staged file is no longer in the uploads directory.
C1_StagedFileRemovedAtEnd ==
  [][\A r \in Reqs :
       (Finishes(r) /\ file[r] # NoReqFile) => disk'[file[r].path] = Missing]_vars

\* C2: a request that ended with a validation error never called the provider.
C2_NoProviderCallOnValidationError ==
  \A r \in Reqs : ValidationFailed(r) => calls[r] = 0

C2_Witness ==
  \E r1, r2 \in Reqs :
    /\ Done(r1) /\ kind[r1] = "analyze" /\ sent[r1][1].page = NotAnImage
    /\ Done(r2) /\ kind[r2] = "recipe" /\ sent[r2][1].error = IngredientsRequired

\* C3: every validation failure is answered with status 400 and a JSON body
\* that has an error field.
C3_ValidationErrorIs400Json ==
  \A r \in Reqs :
    ValidationFailed(r) =>
      \A i \in 1..Len(sent[r]) :
        sent[r][i].status = 400 /\ sent[r][i].json /\ sent[r][i].error # NoField

C4_Message(k) ==
  CASE k = "analyze" -> "Failed to analyze image"
    [] k = "recipe"  -> "Failed to generate recipe"
    [] k = "video"   -> "Failed to find recipe video"

C4_ProviderThrew(r) ==
  /\ pc[r] = "awaitGen"
  /\ provider[r].state = "rejected" \/ (provider[r].state = "fulfilled" /\ provider[r].blocked)

\* C4: when the provider call of a request throws, the request is answered
\* once, with status 500, a JSON body whose error is the handler's fixed
\* message and whose details is the thrown error's message, which is not empty.
C4_ProviderErrorIs500 ==
  [][\A r \in Reqs :
       (C4_ProviderThrew(r) /\ sent'[r] # sent[r]) =>
         /\ Finishes(r)
         /\ Len(sent'[r]) = 1
         /\ sent'[r][1].status = 500
         /\ sent'[r][1].json
         /\ sent'[r][1].error = C4_Message(kind[r])
         /\ sent'[r][1].details = provider[r].message
         /\ sent'[r][1].details \notin {"", NoField}]_vars

C4_Witness ==
  \E r1, r2 \in Reqs :
    /\ Done(r1) /\ kind[r1] = "recipe" /\ sent[r1][1].status = 500
    /\ sent[r1][1].details \in ProviderErrors
    /\ Done(r2) /\ kind[r2] = "video" /\ sent[r2][1].status = 500
    /\ sent[r2][1].details = BlockedMessage

\* C5: once the provider call of an analyze-image request has succeeded, the
\* request is answered 200 with the parsed ingredients, whatever the deletion
\* of the staged file does.
C5_UnlinkFailureStillAnswers200 ==
  [][\A r \in Reqs :
       ( /\ kind[r] = "analyze" /\ pc[r] = "awaitGen"
         /\ provider[r].state = "fulfilled" /\ ~provider[r].blocked
         /\ Finishes(r) ) =>
         /\ sent'[r][1].status = 200
         /\ sent'[r][1].body = ParseIngredients(provider[r].text)]_vars

\* How far request r has come: not arrived, in its middleware or handler,
\* waiting for the provider, resumed, ended.
C6_Rank(r) ==
  CASE ~Arrived(r) -> 0
    [] pc[r] \in {"handler", "abort"} -> 1
    [] pc[r] = "awaitGen" /\ provider[r].state = "pending" -> 2
    [] pc[r] = "awaitGen" /\ provider[r].state # "pending" -> 3
    [] pc[r] = "done" -> 4

C6_Safe ==
  \A r \in Reqs :
    /\ calls[r] <= 1
    /\ Len(sent[r]) <= 1
    /\ Done(r) <=> Len(sent[r]) = 1
    /\ \A i \in 1..Len(sent[r]) : sent[r][i].status \in {200, 400, 500}

C6_Advance ==
  \A r \in Reqs :
    /\ C6_Rank(r)' >= C6_Rank(r)
    /\ (pc'[r] # pc[r] \/ provider'[r] # provider[r] \/ calls'[r] # calls[r]
          \/ sent'[r] # sent[r])
         => C6_Rank(r)' > C6_Rank(r)

\* C6: a request makes at most one provider call and writes at most one
\* response, a success (200) or a failure (400, 500), with which it ends; it
\* never goes back to an earlier point of its handling; and, the provider
\* answering, a request that has arrived reaches its end.
C6_SingleShot ==
  /\ []C6_Safe
  /\ [][C6_Advance]_vars
  /\ \A r \in Reqs : Arrived(r) ~> (Done(r) /\ Len(sent[r]) = 1)

C6_Witness ==
  \E r1, r2 \in Reqs :
    /\ Done(r1) /\ calls[r1] = 1 /\ sent[r1][1].status = 200
    /\ Done(r2) /\ calls[r2] = 1 /\ sent[r2][1].status = 500

InFlightWithFile(r) == pc[r] \in {"handler", "abort", "awaitGen"} /\ file[r] # NoReqFile

\* C7: no two analyze-image requests in flight have the same staged file path.
C7_StagedPathsDistinct ==
  \A r1, r2 \in Reqs :
    (r1 # r2 /\ InFlightWithFile(r1) /\ InFlightWithFile(r2)) =>
      file[r1].path # file[r2].path

Letter(c) == c \notin Whitespace \cup {","}

\* The positions at which an ingredient starts and ends in the text: a letter
\* with no letter before it (after it) since the last (until the next) comma.
Starts(t) ==
  {i \in 1..Len(t) :
     /\ Letter(t[i])
     /\ \A j \in 1..(i - 1) : Letter(t[j]) => \E k \in (j + 1)..(i - 1) : t[k] = ","}
Ends(t) ==
  {i \in 1..Len(t) :
     /\ Letter(t[i])
     /\ \A j \in (i + 1)..Len(t) : Letter(t[j]) => \E k \in (i + 1)..(j - 1) : t[k] = ","}
Nth(S, n) == CHOOSE x \in S : Cardinality({y \in S : y < x}) = n - 1
Expected(t) ==
  [n \in 1..Cardinality(Starts(t)) |-> SubSeq(t, Nth(Starts(t), n), Nth(Ends(t), n))]

\* C8: the ingredients are the comma-separated pieces of the text, trimmed,
\* the empty ones dropped, in their order and with their repetitions; every
\* ingredient is a non-empty trimmed string, and the empty text gives none.
C8_ParseIsSplitTrimFilter ==
  parseJob.done =>
    LET text == parseJob.text
        ingredients == parseJob.ingredients
    IN  /\ ingredients = Expected(text)
        /\ \A n \in 1..Len(ingredients) :
             /\ Len(ingredients[n]) > 0
             /\ ingredients[n][1] \notin Whitespace
             /\ ingredients[n][Len(ingredients[n])] \notin Whitespace
             /\ \A i \in 1..Len(ingredients[n]) : ingredients[n][i] # ","
        /\ text = <<>> => ingredients = <<>>
        /\ text = Example => ingredients = << <<"a">>, <<"b">>, <<"c">> >>
        /\ text = <<"a", ",", "a">> => ingredients = << <<"a">>, <<"a">> >>

C8_Witness ==
  /\ parseJob.done
  /\ parseJob.text = Example
  /\ parseJob.ingredients = << <<"a">>, <<"b">>, <<"c">> >>

C9_Present(v) == v \notin {Undefined, Null, ""}
C9_HasClause(prompt, head, value) ==
  \E i \in 1..(Len(prompt) - 2) :
    prompt[i] = head /\ prompt[i + 1] = value /\ prompt[i + 2] = "."
C9_Mentions(prompt, head) == \E i \in 1..Len(prompt) : prompt[i] = head

\* C9: the recipe prompt has the cuisine clause exactly when cuisine is given
\* and is not 'Any', and the dietary clause exactly when dietaryRestrictions is
\* given and is not 'None'.
C9_SentinelSuppression ==
  promptJob.done =>
    LET body == promptJob.body
        prompt == promptJob.prompt
        cuisineOn == C9_Present(body.cuisine) /\ body.cuisine # "Any"
        dietaryOn == C9_Present(body.dietaryRestrictions) /\ body.dietaryRestrictions # "None"
    IN  /\ cuisineOn <=> C9_Mentions(prompt, "The cuisine should be ")
        /\ cuisineOn => C9_HasClause(prompt, "The cuisine should be ", body.cuisine)
        /\ dietaryOn <=> C9_Mentions(prompt, "Please ensure the recipe is ")
        /\ dietaryOn =>
             C9_HasClause(prompt, "Please ensure the recipe is ", body.dietaryRestrictions)

C9_Witness ==
  /\ promptJob.done
  /\ promptJob.body.cuisine = "Any"
  /\ promptJob.body.dietaryRestrictions = "None"
  /\ ~C9_Mentions(promptJob.prompt, "The cuisine should be ")
  /\ ~C9_Mentions(promptJob.prompt, "Please ensure the recipe is ")

====
